---------------------------- MODULE Spec2Model ----------------------------
(***************************************************************************)
(* A model of the GTA Utils add-on (donzul/gta_sa_utils): the batch        *)
(* clean-up passes that collapse duplicate meshes, materials, material     *)
(* slots and images of a host scene.                                       *)
(*                                                                         *)
(* The host scene (bpy.data) is the state.  A data block is an entry of    *)
(* one of the functions objs, meshes, mats, imgs; its key is its identity  *)
(* and the host enumerates a collection in ascending key order.  The key 0 *)
(* is None.  A block's user count is what the host reports: the references *)
(* held by the blocks that exist (object -> mesh, mesh material list ->     *)
(* material, texture node -> image) plus "extra", the users the passes     *)
(* never scan (a fake user, a user outside the scanned structures).        *)
(*                                                                         *)
(* A pass is a sequence of steps under the control variable pc: its scan   *)
(* (the loops that group and rewrite), one step per iteration of its       *)
(* deletion loop, and its end.  The host is single threaded: a pass that   *)
(* has begun is the only thing that can move until it has ended.           *)
(***************************************************************************)
EXTENDS Integers, Sequences, FiniteSets, TLC

VARIABLES
    objs,       \* bpy.data.objects: id -> [type, data] and, where reset_object and
                \* the export run, [name, matrix_world, rotation_mode,
                \* users_collection, select]
    meshes,     \* bpy.data.meshes: id -> [name, vertices, edges, faces, extra, materials, material_index]
    mats,       \* bpy.data.materials: id -> [name, use_nodes, nodes, extra]
    imgs,       \* bpy.data.images: id -> [name, pixels, packed, source, filepath, extra]
    ctx,        \* bpy.context and the document: [active, mode, saved, export_dir,
                \* files]: the active object or None, the interaction mode,
                \* whether the document has a file path, whether the export
                \* directory exists, the files exported
    mapFile,    \* texture_map.txt: [exists, lines], a line being <<new name, original name>>
    pc,         \* where the running pass stands; "idle" between passes
    todo,       \* the deletion candidates the running pass has still to visit
    imap,       \* image_material_map of remove_duplicate_materials
    pre,        \* the scene as it was when the last pass began
    deleted,    \* every block a pass has deleted so far, as <<category, id>>
    queued,     \* the blocks the last pass queued for deletion
    redirect,   \* the rewrites the last pass made: <<category, duplicate, survivor>>
    writes,     \* how many changes the last pass has made to the scene
    lastPass,   \* the pass that ran last (or is running)
    prevPass,   \* the pass that ran before it
    runs        \* how many passes have begun

vars == <<objs, meshes, mats, imgs, ctx, mapFile, pc, todo, imap, pre, deleted,
          queued, redirect, writes, lastPass, prevPass, runs>>

scene == [objs |-> objs, meshes |-> meshes, mats |-> mats, imgs |-> imgs, ctx |-> ctx]

-----------------------------------------------------------------------------
(* Bounds of the model. *)
NumObjs == 3
NumMeshes == 3
NumGeoms == 2
NumMats == 3
NumImgs == 3
MaxSlots == 4
NumPolys == 2
MaxPasses == 2

None == 0        \* no block
NoName == <<>>   \* no name, no hash: the empty sequence

ObjIds == 1 .. NumObjs
MeshIds == 1 .. NumMeshes

-----------------------------------------------------------------------------
(* Generic helpers. *)

Min(S) == CHOOSE x \in S : \A y \in S : x <= y

RECURSIVE Enumerate(_)
\* The host's enumeration of a collection: its keys in ascending order.
Enumerate(S) ==
    IF S = {} THEN <<>>
    ELSE LET x == Min(S) IN <<x>> \o Enumerate(S \ {x})

Range(s) == {s[i] : i \in DOMAIN s}

\* The function f without the key k (the host frees the block).
Without(f, k) == [x \in DOMAIN f \ {k} |-> f[x]]

\* How many positions of the sequence s hold v.
Count(s, v) == Cardinality({i \in DOMAIN s : s[i] = v})

RECURSIVE SumOver(_, _)
SumOver(S, f) ==
    IF S = {} THEN 0
    ELSE LET x == Min(S) IN f[x] + SumOver(S \ {x}, f)

-----------------------------------------------------------------------------
(* Names.  A name is a sequence of characters (strings of length one), so  *)
(* that the string operations of the code are computed, not assumed.       *)

Digits == {"0", "1", "2", "3", "4", "5", "6", "7", "8", "9"}
UpperCase == <<"A", "B", "C", "D", "E", "F", "G", "H", "I", "J", "K", "L", "M",
               "N", "O", "P", "Q", "R", "S", "T", "U", "V", "W", "X", "Y", "Z">>
LowerCase == <<"a", "b", "c", "d", "e", "f", "g", "h", "i", "j", "k", "l", "m",
               "n", "o", "p", "q", "r", "s", "t", "u", "v", "w", "x", "y", "z">>
AlphaNumeric == Range(UpperCase) \cup Range(LowerCase) \cup Digits

\* str.lower() of one character.
lower_char(c) ==
    IF \E i \in DOMAIN UpperCase : UpperCase[i] = c
    THEN LowerCase[CHOOSE i \in DOMAIN UpperCase : UpperCase[i] = c]
    ELSE c

lower(s) == [i \in DOMAIN s |-> lower_char(s[i])]

IsSpace(c) == c = " "

\* s.replace(" ", "")
remove_spaces(s) == SelectSeq(s, LAMBDA c : ~IsSpace(c))

RECURSIVE lstrip(_)
lstrip(s) == IF s # <<>> /\ IsSpace(Head(s)) THEN lstrip(Tail(s)) ELSE s

RECURSIVE rstrip(_)
rstrip(s) ==
    IF s # <<>> /\ IsSpace(s[Len(s)]) THEN rstrip(SubSeq(s, 1, Len(s) - 1)) ELSE s

\* str.strip()
strip(s) == lstrip(rstrip(s))

\* The positions of the character c in s.
Positions(s, c) == {i \in DOMAIN s : s[i] = c}

Max(S) == CHOOSE x \in S : \A y \in S : x >= y

\* os.path.splitext(name)[0], of a name without path separators: the name up
\* to its last dot, unless only dots precede that dot.
splitext_root(s) ==
    LET dots == Positions(s, ".") IN
    IF dots = {} THEN s
    ELSE LET d == Max(dots) IN
         IF \E j \in 1 .. d - 1 : s[j] # "." THEN SubSeq(s, 1, d - 1) ELSE s

\* str.isdigit()
isdigit(s) == s # <<>> /\ \A i \in DOMAIN s : s[i] \in Digits

\* The numeric suffix the host appends on a name collision: ".001", ".002", ...
Suffix(n) == <<".", "0", "0">> \o <<CHOOSE d \in Digits : d = ToString(n)>>

\* Whether s ends in ".ddd".
HasNumberSuffix(s) ==
    /\ Len(s) >= 4
    /\ s[Len(s) - 3] = "."
    /\ isdigit(SubSeq(s, Len(s) - 2, Len(s)))

RECURSIVE FirstFree(_, _, _)
FirstFree(base, taken, n) ==
    IF base \o Suffix(n) \notin taken \/ n = 9 THEN base \o Suffix(n)
    ELSE FirstFree(base, taken, n + 1)

\* What the host makes of the assignment block.name = s, where taken are the
\* names of the other blocks of the collection (texture_utils.py, lines
\* 113-116: on a collision the host appends .001, .002, ...).
unique_name(s, taken) ==
    IF s \notin taken THEN s
    ELSE FirstFree(IF HasNumberSuffix(s) THEN SubSeq(s, 1, Len(s) - 4) ELSE s,
                   taken, 1)

\* The names of the blocks of f other than k.
OtherNames(f, k) == {f[x].name : x \in DOMAIN f \ {k}}

-----------------------------------------------------------------------------
(* User counts, as the host reports them (ID.users). *)

MeshUsers(os, ms, m) ==
    Cardinality({o \in DOMAIN os : os[o].data = m}) + ms[m].extra

\* A material is used by every entry of a mesh's material list that holds it.
MatUsers(ms, xs, x) ==
    SumOver(DOMAIN ms, [m \in DOMAIN ms |-> Count(ms[m].materials, x)]) + xs[x].extra

\* The nodes of the material record mat that reference the image i.
NodesOn(mat, i) == {k \in DOMAIN mat.nodes : mat.nodes[k].image = i}

\* An image is used by every node that references it, in any material.
ImgUsers(xs, is, i) ==
    SumOver(DOMAIN xs, [x \in DOMAIN xs |-> Cardinality(NodesOn(xs[x], i))]) + is[i].extra

-----------------------------------------------------------------------------
(* remove_duplicate_meshes (mesh_utils.py). *)

\* Lines 148-152: the geometry of a mesh, in storage order.
geom_hash(mesh) == <<mesh.vertices, mesh.edges, mesh.faces>>

\* bpy.data.meshes.get(name): the mesh of that name, or None.
meshes_get(ms, name) ==
    IF \E m \in DOMAIN ms : ms[m].name = name
    THEN CHOOSE m \in DOMAIN ms : ms[m].name = name
    ELSE None

\* The mutant records every mesh it visits: the last one seen is the source.
mesh_data_blocks_after_mut(blocks, h, m) ==
    [k \in DOMAIN blocks \cup {h} |-> IF k = h THEN m ELSE blocks[k]]

\* Lines 155 and 173-175: mesh_data_blocks after the visit of the mesh m of
\* hash h; only a hash that is not in the dictionary is recorded.
mesh_data_blocks_after(blocks, h, m) ==
    IF h \in DOMAIN blocks THEN blocks
    ELSE [k \in DOMAIN blocks \cup {h} |-> IF k = h THEN m ELSE blocks[k]]

\* The mutant updates the first object that uses the mesh and stops.
objects_to_update_mut(os, m) ==
    LET all == {o \in DOMAIN os : os[o].data = m} IN
    IF all = {} THEN {} ELSE {Min(all)}

\* Line 160: the objects that use the mesh.
objects_to_update(os, m) == {o \in DOMAIN os : os[o].data = m}

\* The mutant queues a duplicate without looking at its users.
mesh_queue_guard_mut(os, ms, m) == TRUE

\* Line 170: the duplicate is queued for deletion if it has no users left.
mesh_queue_guard(os, ms, m) == MeshUsers(os, ms, m) = 0

\* One iteration of the first loop, for the mesh m; st is the loop's state:
\* the objects, mesh_data_blocks, mesh_names_to_delete and what was rewritten.
mesh_visit(st, ms, m) ==
    IF MeshUsers(st.objs, ms, m) = 0 THEN st
    ELSE LET h == geom_hash(ms[m]) IN
         IF h \in DOMAIN st.blocks
         THEN LET src == st.blocks[h]
                  upd == objects_to_update(st.objs, m)
                  os2 == [o \in DOMAIN st.objs |->
                            IF o \in upd THEN [st.objs[o] EXCEPT !.data = src]
                            ELSE st.objs[o]]
              IN [st EXCEPT
                    !.objs = os2,
                    !.blocks = mesh_data_blocks_after(@, h, m),
                    !.found = @ + Cardinality(upd),
                    !.redirect = @ \cup {<<"mesh", m, src>>},
                    !.names = IF mesh_queue_guard(os2, ms, m)
                              THEN Append(@, ms[m].name) ELSE @]
         ELSE [st EXCEPT !.blocks = mesh_data_blocks_after(@, h, m)]

RECURSIVE mesh_first_pass(_, _, _)
mesh_first_pass(st, ms, order) ==
    IF order = <<>> THEN st
    ELSE mesh_first_pass(mesh_visit(st, ms, Head(order)), ms, Tail(order))

\* Lines 135-175: the first pass over bpy.data.meshes.
remove_duplicate_meshes ==
    /\ pc = "idle"
    /\ runs < MaxPasses
    /\ LET st0 == [objs |-> objs, blocks |-> <<>>, names |-> <<>>,
                   found |-> 0, redirect |-> {}]
           st == mesh_first_pass(st0, meshes, Enumerate(DOMAIN meshes))
       IN /\ objs' = st.objs
          /\ todo' = st.names
          /\ redirect' = st.redirect
          /\ writes' = st.found
          /\ queued' = {<<"mesh", meshes_get(meshes, st.names[i])>> : i \in DOMAIN st.names}
    /\ pre' = scene
    /\ pc' = "mesh_delete"
    /\ prevPass' = lastPass
    /\ lastPass' = "meshes"
    /\ runs' = runs + 1
    /\ UNCHANGED <<ctx, meshes, mats, imgs, mapFile, imap, deleted>>

\* Lines 178-190: one iteration of the second pass.
remove_duplicate_meshes_delete ==
    /\ pc = "mesh_delete"
    /\ todo # <<>>
    /\ LET mesh_to_remove == meshes_get(meshes, Head(todo)) IN
       IF mesh_to_remove # None
       THEN /\ meshes' = Without(meshes, mesh_to_remove)
            /\ deleted' = deleted \cup {<<"mesh", mesh_to_remove>>}
            /\ writes' = writes + 1
       ELSE UNCHANGED <<meshes, deleted, writes>>
    /\ todo' = Tail(todo)
    /\ UNCHANGED <<ctx, objs, mats, imgs, mapFile, pc, imap, pre, queued, redirect,
                   lastPass, prevPass, runs>>

\* Lines 192-195: the pass reports and returns.
remove_duplicate_meshes_end ==
    /\ pc = "mesh_delete"
    /\ todo = <<>>
    /\ pc' = "idle"
    /\ UNCHANGED <<ctx, objs, meshes, mats, imgs, mapFile, todo, imap, pre, deleted,
                   queued, redirect, writes, lastPass, prevPass, runs>>

-----------------------------------------------------------------------------
(* remove_duplicate_materials (material_utils.py). *)

\* Lines 117-121: whether the material record mat uses nodes and has an image
\* texture node on the image.
links_image(mat, image) ==
    /\ mat.use_nodes
    /\ \E k \in DOMAIN mat.nodes :
          mat.nodes[k].type = "TEX_IMAGE" /\ mat.nodes[k].image = image

\* Lines 113-121: linked_materials, in the host's order.
linked_materials(xs, image) ==
    SelectSeq(Enumerate(DOMAIN xs), LAMBDA x : links_image(xs[x], image))

\* The meshes whose material lists are the material_slots of a mesh object.
SlotMeshes(os, ms) ==
    {os[o].data : o \in {p \in DOMAIN os : os[p].type = "MESH"}} \cap DOMAIN ms

\* Lines 137-142: every slot of every mesh object that holds dup is set to
\* first.
replace_material(os, ms, dup, first) ==
    [m \in DOMAIN ms |->
        IF m \in SlotMeshes(os, ms)
        THEN [ms[m] EXCEPT !.materials =
                 [k \in DOMAIN @ |-> IF @[k] = dup THEN first ELSE @[k]]]
        ELSE ms[m]]

\* How many slots replace_material rewrites.
SlotsHolding(os, ms, dup) ==
    SumOver(SlotMeshes(os, ms),
            [m \in SlotMeshes(os, ms) |-> Count(ms[m].materials, dup)])

RECURSIVE consolidate(_, _, _, _)
\* Lines 132-144: the duplicates of one image, in order.
consolidate(st, os, first, dups) ==
    IF dups = <<>> THEN st
    ELSE LET d == Head(dups) IN
         consolidate([st EXCEPT
                        !.meshes = replace_material(os, @, d, first),
                        !.writes = @ + SlotsHolding(os, st.meshes, d),
                        !.redirect = @ \cup {<<"mat", d, first>>},
                        !.todo = Append(@, d)],
                     os, first, Tail(dups))

\* Lines 112-150: one iteration of the loop over the images.
material_visit(st, os, xs, is, i) ==
    LET linked == linked_materials(xs, i) IN
    IF linked = <<>> THEN st
    ELSE LET st2 == consolidate(st, os, Head(linked), Tail(linked))
         IN [st2 EXCEPT !.imap = Append(@, <<is[i].name, Head(linked)>>)]

RECURSIVE material_phase1(_, _, _, _, _)
material_phase1(st, os, xs, is, order) ==
    IF order = <<>> THEN st
    ELSE material_phase1(material_visit(st, os, xs, is, Head(order)),
                         os, xs, is, Tail(order))

\* Lines 104-150: phase 1.
remove_duplicate_materials ==
    /\ pc = "idle"
    /\ runs < MaxPasses
    /\ LET st0 == [meshes |-> meshes, todo |-> <<>>, imap |-> <<>>,
                   redirect |-> {}, writes |-> 0]
           st == material_phase1(st0, objs, mats, imgs, Enumerate(DOMAIN imgs))
       IN /\ meshes' = st.meshes
          /\ todo' = Range(st.todo)      \* line 154: set(materials_to_delete)
          /\ imap' = st.imap
          /\ redirect' = st.redirect
          /\ writes' = st.writes
          /\ queued' = {<<"mat", x>> : x \in Range(st.todo)}
    /\ pre' = scene
    /\ pc' = "mat_delete"
    /\ prevPass' = lastPass
    /\ lastPass' = "materials"
    /\ runs' = runs + 1
    /\ UNCHANGED <<ctx, objs, mats, imgs, mapFile, deleted>>

\* The mutant deletes a queued material whatever its users.
material_delete_guard_mut(ms, xs, x) == TRUE

\* Line 155: mat.users == 0
material_delete_guard(ms, xs, x) == MatUsers(ms, xs, x) = 0

\* Lines 154-159: one iteration of phase 2; a set is visited in any order.
remove_duplicate_materials_delete ==
    /\ pc = "mat_delete"
    /\ \E mat \in todo :
          /\ IF material_delete_guard(meshes, mats, mat)
             THEN /\ mats' = Without(mats, mat)
                  /\ deleted' = deleted \cup {<<"mat", mat>>}
                  /\ writes' = writes + 1
             ELSE UNCHANGED <<mats, deleted, writes>>
          /\ todo' = todo \ {mat}
    /\ UNCHANGED <<ctx, objs, meshes, imgs, mapFile, pc, imap, pre, queued, redirect,
                   lastPass, prevPass, runs>>

\* Line 170: base_image_name.split('_', 1), or <<>> when it has no two parts.
split_underscore(base) ==
    LET us == Positions(base, "_") IN
    IF us = {} THEN <<>>
    ELSE LET u == Min(us) IN
         <<SubSeq(base, 1, u - 1), SubSeq(base, u + 1, Len(base))>>

\* Lines 165-172: the material name an image name asks for, or NoName.
new_material_name(image_name) ==
    LET parts == split_underscore(splitext_root(image_name)) IN
    IF parts = <<>> THEN NoName
    ELSE IF parts[1] = <<"T">> /\ isdigit(parts[2]) THEN <<"M", "_">> \o parts[2]
    ELSE NoName

\* Lines 163-185: one iteration of phase 3.  Reading the name of a material
\* the host has freed raises, and the handler of line 184 moves on.
rename_visit(st, entry) ==
    LET new == new_material_name(entry[1])
        m == entry[2]
    IN IF new = NoName \/ m \notin DOMAIN st.mats THEN st
       ELSE IF st.mats[m].name = new THEN st
       ELSE LET got == unique_name(new, OtherNames(st.mats, m)) IN
            [mats |-> [st.mats EXCEPT ![m].name = got],
             writes |-> st.writes + (IF got = st.mats[m].name THEN 0 ELSE 1)]

RECURSIVE material_phase3(_, _)
material_phase3(st, entries) ==
    IF entries = <<>> THEN st
    ELSE material_phase3(rename_visit(st, Head(entries)), Tail(entries))

\* Lines 161-188: phase 3, and the pass returns.
remove_duplicate_materials_rename ==
    /\ pc = "mat_delete"
    /\ todo = {}
    /\ LET st == material_phase3([mats |-> mats, writes |-> writes], imap) IN
          /\ mats' = st.mats
          /\ writes' = st.writes
    /\ pc' = "idle"
    /\ todo' = <<>>
    /\ imap' = <<>>
    /\ UNCHANGED <<ctx, objs, meshes, imgs, mapFile, pre, deleted, queued, redirect,
                   lastPass, prevPass, runs>>

-----------------------------------------------------------------------------
(* rename_image_paths and clean_image_names (texture_utils.py). *)

\* Lines 217-226: the source path of every packed image becomes its name.
rename_image_paths(is) ==
    [i \in DOMAIN is |->
        IF is[i].packed THEN [is[i] EXCEPT !.filepath = is[i].name] ELSE is[i]]

\* How many file paths rename_image_paths changes.
PathsChanged(is) ==
    Cardinality({i \in DOMAIN is : is[i].packed /\ is[i].filepath # is[i].name})

\* Lines 98-101 and 150-157: an external unpacked file or a generated image.
skipped_image(img) ==
    \/ (~img.packed /\ img.source = "FILE")
    \/ img.source = "GENERATED"

\* Line 105: re.search(r'(\.[a-zA-Z0-9]{2,4})\.(\d{3})$', name)
suffix_match(s) ==
    /\ HasNumberSuffix(s)
    /\ \E k \in 2 .. 4 :
          /\ Len(s) - 4 - k >= 1
          /\ s[Len(s) - 4 - k] = "."
          /\ \A j \in Len(s) - 3 - k .. Len(s) - 4 : s[j] \in AlphaNumeric

\* Lines 96-121: one iteration of clean_image_names.
clean_visit(st, i) ==
    LET img == st.imgs[i] IN
    IF skipped_image(img) \/ ~suffix_match(img.name) THEN st
    ELSE LET cleaned == SubSeq(img.name, 1, Len(img.name) - 4)
             got == unique_name(cleaned, OtherNames(st.imgs, i))
         IN [imgs |-> [st.imgs EXCEPT ![i].name = got],
             writes |-> st.writes + (IF got = img.name THEN 0 ELSE 1)]

RECURSIVE clean_image_names(_, _)
clean_image_names(st, order) ==
    IF order = <<>> THEN st
    ELSE clean_image_names(clean_visit(st, Head(order)), Tail(order))

-----------------------------------------------------------------------------
(* remove_duplicate_images (texture_utils.py). *)

\* Lines 129-135: the digest of the pixel buffer, or nothing without pixels
\* (pixels = 0: the buffer is empty).  Equal buffers have equal digests and
\* the model's buffers never collide.
get_image_hash(img) == IF img.pixels = 0 THEN NoName ELSE <<"md5", img.pixels>>

\* Lines 147-161: the images that are grouped.
hashed_image(img) == ~skipped_image(img) /\ get_image_hash(img) # NoName

\* image_hashes[img_hash] of the hash of image i: the group, in order.
image_group(is, i) ==
    SelectSeq(Enumerate(DOMAIN is),
              LAMBDA j : hashed_image(is[j])
                         /\ get_image_hash(is[j]) = get_image_hash(is[i]))

\* Line 171: original_image = images[0]
original_image(group) == group[1]

\* Which materials the relinking loop of lines 179-185 enters.
relinks_material(mat) == mat.use_nodes

\* Lines 179-185: every image texture node on dup, in every material that uses
\* nodes, is set to orig.
relink_nodes(xs, dup, orig) ==
    [x \in DOMAIN xs |->
        IF relinks_material(xs[x])
        THEN [xs[x] EXCEPT !.nodes =
                 [k \in DOMAIN @ |->
                     IF @[k].type = "TEX_IMAGE" /\ @[k].image = dup
                     THEN [@[k] EXCEPT !.image = orig] ELSE @[k]]]
        ELSE xs[x]]

\* How many nodes relink_nodes rewrites.
NodesRelinked(xs, dup) ==
    SumOver({x \in DOMAIN xs : relinks_material(xs[x])},
            [x \in DOMAIN xs |->
                Cardinality({k \in NodesOn(xs[x], dup) : xs[x].nodes[k].type = "TEX_IMAGE"})])

RECURSIVE relink_group(_, _, _)
\* Lines 175-187: the duplicates of one group, in order.
relink_group(st, orig, dups) ==
    IF dups = <<>> THEN st
    ELSE LET d == Head(dups) IN
         relink_group([st EXCEPT
                         !.mats = relink_nodes(@, d, orig),
                         !.writes = @ + NodesRelinked(st.mats, d),
                         !.redirect = @ \cup {<<"img", d, orig>>},
                         !.todo = Append(@, d)],
                      orig, Tail(dups))

\* Lines 168-187: the group of the image i, visited when i is the image that
\* put its hash into image_hashes (a dictionary keeps insertion order).
image_visit(st, is, i) ==
    IF ~hashed_image(is[i]) THEN st
    ELSE LET group == image_group(is, i) IN
         IF group[1] # i \/ Len(group) <= 1 THEN st
         ELSE LET orig == original_image(group) IN
              relink_group(st, orig, SelectSeq(group, LAMBDA j : j # orig))

RECURSIVE image_second_pass(_, _, _)
image_second_pass(st, is, order) ==
    IF order = <<>> THEN st
    ELSE image_second_pass(image_visit(st, is, Head(order)), is, Tail(order))

\* Lines 142-193: both passes; without duplicates the function returns.
remove_duplicate_images ==
    /\ pc = "idle"
    /\ runs < MaxPasses
    /\ LET st0 == [mats |-> mats, todo |-> <<>>, redirect |-> {}, writes |-> 0]
           st == image_second_pass(st0, imgs, Enumerate(DOMAIN imgs))
       IN /\ mats' = st.mats
          /\ todo' = st.todo
          /\ redirect' = st.redirect
          /\ writes' = st.writes
          /\ queued' = {<<"img", i>> : i \in Range(st.todo)}
          /\ pc' = IF st.todo = <<>> THEN "idle" ELSE "img_delete"
    /\ pre' = scene
    /\ prevPass' = lastPass
    /\ lastPass' = "images"
    /\ runs' = runs + 1
    /\ UNCHANGED <<ctx, objs, meshes, imgs, mapFile, imap, deleted>>

\* The mutant deletes a queued image whatever its users.
image_delete_guard_mut(xs, is, i) == TRUE

\* Lines 80 and 199: image.users == 0
image_delete_guard(xs, is, i) == ImgUsers(xs, is, i) = 0

\* Lines 196-205: one iteration of the deletion loop.
remove_duplicate_images_delete ==
    /\ pc = "img_delete"
    /\ todo # <<>>
    /\ IF image_delete_guard(mats, imgs, Head(todo))
       THEN /\ imgs' = Without(imgs, Head(todo))
            /\ deleted' = deleted \cup {<<"img", Head(todo)>>}
            /\ writes' = writes + 1
       ELSE UNCHANGED <<imgs, deleted, writes>>
    /\ todo' = Tail(todo)
    /\ UNCHANGED <<ctx, objs, meshes, mats, mapFile, pc, imap, pre, queued, redirect,
                   lastPass, prevPass, runs>>

\* Lines 207-210: clean_image_names(), rename_image_paths(), and the pass
\* returns.
remove_duplicate_images_end ==
    /\ pc = "img_delete"
    /\ todo = <<>>
    /\ LET st == clean_image_names([imgs |-> imgs, writes |-> writes],
                                   Enumerate(DOMAIN imgs))
       IN /\ imgs' = rename_image_paths(st.imgs)
          /\ writes' = st.writes + PathsChanged(st.imgs)
    /\ pc' = "idle"
    /\ UNCHANGED <<ctx, objs, meshes, mats, mapFile, todo, imap, pre, deleted, queued,
                   redirect, lastPass, prevPass, runs>>

-----------------------------------------------------------------------------
(* remap_textures (texture_utils.py). *)

\* Line 29: the key a name is looked up by.
normalize(name) == lower(remove_spaces(name))

RECURSIVE read_map(_, _)
\* Lines 19-30: image_map, as the set of its <<key, new name>> pairs; a later
\* record of the same key replaces an earlier one.
read_map(lines, map) ==
    IF lines = <<>> THEN map
    ELSE LET key == normalize(strip(Head(lines)[2]))
             val == strip(Head(lines)[1])
         IN read_map(Tail(lines), {e \in map : e[1] # key} \cup {<<key, val>>})

map_has(map, key) == \E e \in map : e[1] = key
map_get(map, key) == (CHOOSE e \in map : e[1] = key)[2]

\* Lines 50-51: bpy.data.images[name], or None when no image has that name.
images_get(is, name) ==
    IF \E i \in DOMAIN is : is[i].name = name
    THEN CHOOSE i \in DOMAIN is : is[i].name = name
    ELSE None

\* The mutant's loop enters no material.
reassigns_material_mut(mat) == FALSE

\* Which materials the reassigning loop of lines 61-66 enters: those with a
\* node tree (a material without one has no nodes).
reassigns_material(mat) == TRUE

\* Lines 61-66: every image texture node on image is set to target.
reassign_nodes(xs, image, target) ==
    [x \in DOMAIN xs |->
        IF reassigns_material(xs[x])
        THEN [xs[x] EXCEPT !.nodes =
                 [k \in DOMAIN @ |->
                     IF @[k].type = "TEX_IMAGE" /\ @[k].image = image
                     THEN [@[k] EXCEPT !.image = target] ELSE @[k]]]
        ELSE xs[x]]

NodesReassigned(xs, image) ==
    SumOver(DOMAIN xs,
            [x \in DOMAIN xs |->
                Cardinality({k \in NodesOn(xs[x], image) : xs[x].nodes[k].type = "TEX_IMAGE"})])

\* Lines 40-75: one iteration of the first pass.
remap_visit(st, map, i) ==
    LET key == normalize(st.imgs[i].name) IN
    IF ~map_has(map, key) THEN st
    ELSE LET new_desired_name == map_get(map, key)
             target_image == images_get(st.imgs, new_desired_name)
         IN IF target_image = None
            THEN [st EXCEPT !.imgs[i].name = new_desired_name,
                            !.writes = @ + 1]
            ELSE IF target_image = i THEN st
            ELSE [st EXCEPT
                    !.mats = reassign_nodes(@, i, target_image),
                    !.writes = @ + NodesReassigned(st.mats, i),
                    !.redirect = @ \cup {<<"img", i, target_image>>},
                    !.todo = Append(@, i)]

RECURSIVE remap_first_pass(_, _, _)
remap_first_pass(st, map, order) ==
    IF order = <<>> THEN st
    ELSE remap_first_pass(remap_visit(st, map, Head(order)), map, Tail(order))

\* Lines 10-17: without the mapping file the function returns at once.
remap_textures_no_file ==
    /\ pc = "idle"
    /\ runs < MaxPasses
    /\ ~mapFile.exists
    /\ pre' = scene
    /\ prevPass' = lastPass
    /\ lastPass' = "remap"
    /\ runs' = runs + 1
    /\ todo' = <<>>
    /\ redirect' = {}
    /\ queued' = {}
    /\ writes' = 0
    /\ UNCHANGED <<ctx, objs, meshes, mats, imgs, mapFile, pc, imap, deleted>>

\* Lines 19-75: the mapping is read and the first pass made.
remap_textures ==
    /\ pc = "idle"
    /\ runs < MaxPasses
    /\ mapFile.exists
    /\ LET st0 == [imgs |-> imgs, mats |-> mats, todo |-> <<>>, redirect |-> {},
                   writes |-> 0]
           st == remap_first_pass(st0, read_map(mapFile.lines, {}), Enumerate(DOMAIN imgs))
       IN /\ imgs' = st.imgs
          /\ mats' = st.mats
          /\ todo' = st.todo
          /\ redirect' = st.redirect
          /\ writes' = st.writes
          /\ queued' = {<<"img", i>> : i \in Range(st.todo)}
    /\ pre' = scene
    /\ pc' = "remap_delete"
    /\ prevPass' = lastPass
    /\ lastPass' = "remap"
    /\ runs' = runs + 1
    /\ UNCHANGED <<ctx, objs, meshes, mapFile, imap, deleted>>

\* Lines 78-85: one iteration of the second pass.
remap_textures_delete ==
    /\ pc = "remap_delete"
    /\ todo # <<>>
    /\ IF image_delete_guard(mats, imgs, Head(todo))
       THEN /\ imgs' = Without(imgs, Head(todo))
            /\ deleted' = deleted \cup {<<"img", Head(todo)>>}
            /\ writes' = writes + 1
       ELSE UNCHANGED <<imgs, deleted, writes>>
    /\ todo' = Tail(todo)
    /\ UNCHANGED <<ctx, objs, meshes, mats, mapFile, pc, imap, pre, queued, redirect,
                   lastPass, prevPass, runs>>

\* Line 87: rename_image_paths(), and the pass returns.
remap_textures_end ==
    /\ pc = "remap_delete"
    /\ todo = <<>>
    /\ imgs' = rename_image_paths(imgs)
    /\ writes' = writes + PathsChanged(imgs)
    /\ pc' = "idle"
    /\ UNCHANGED <<ctx, objs, meshes, mats, mapFile, todo, imap, pre, deleted, queued,
                   redirect, lastPass, prevPass, runs>>

-----------------------------------------------------------------------------
(* remove_duplicate_material_slots (material_utils.py).  Slot indices are  *)
(* those of the code, from 0; position i + 1 of a sequence holds slot i.   *)

\* Lines 29-38: the image of the first image texture node that has one.
get_first_image_texture(xs, mat) ==
    IF mat # None /\ xs[mat].use_nodes
    THEN LET ks == {k \in DOMAIN xs[mat].nodes :
                      xs[mat].nodes[k].type = "TEX_IMAGE" /\ xs[mat].nodes[k].image # None}
         IN IF ks = {} THEN None ELSE xs[mat].nodes[Min(ks)].image
    ELSE None

\* The mutant forgets to renumber the polygons behind the removed slot.
materials_pop_mut(mesh, index) ==
    [mesh EXCEPT !.materials = SubSeq(@, 1, index) \o SubSeq(@, index + 2, Len(@))]

\* Line 91: obj.data.materials.pop(index=index).  The host removes the entry
\* and renumbers the polygons: a material index that is positive and at
\* least index is decremented.
materials_pop(mesh, index) ==
    [mesh EXCEPT
        !.materials = SubSeq(@, 1, index) \o SubSeq(@, index + 2, Len(@)),
        !.material_index = [p \in DOMAIN @ |->
                              IF @[p] > 0 /\ @[p] >= index THEN @[p] - 1 ELSE @[p]]]

\* Lines 57-85: one iteration of the walk, for the slot i.
slot_visit(st, xs, materials, i) ==
    LET mat == materials[i + 1] IN
    IF mat = None THEN [st EXCEPT !.remove = Append(@, i)]
    ELSE LET mat_key == <<mat, get_first_image_texture(xs, mat)>> IN
         IF ~map_has(st.map, mat_key)
         THEN [st EXCEPT !.map = @ \cup {<<mat_key, i>>}]
         ELSE LET original_slot_index == map_get(st.map, mat_key) IN
              [st EXCEPT
                 !.polys = [p \in DOMAIN @ |->
                              IF @[p] = i THEN original_slot_index ELSE @[p]],
                 !.writes = @ + Count(st.polys, i),
                 !.moves = @ \cup {<<i, original_slot_index>>},
                 !.remove = Append(@, i)]

RECURSIVE slot_walk_mut(_, _, _, _)
RECURSIVE slot_walk(_, _, _, _)
\* The mutant walks the slots forward, from the first to the last.
slot_walk_mut(st, xs, materials, i) ==
    IF i < 0 THEN st
    ELSE slot_visit(slot_walk_mut(st, xs, materials, i - 1), xs, materials, i)

\* Line 56: for i in range(len(obj.data.materials) - 1, -1, -1)
slot_walk(st, xs, materials, i) ==
    IF i < 0 THEN st
    ELSE slot_walk(slot_visit(st, xs, materials, i), xs, materials, i - 1)

RECURSIVE pop_all(_, _)
pop_all(mesh, indices) ==
    IF indices = <<>> THEN mesh
    ELSE pop_all(materials_pop(mesh, Head(indices)), Tail(indices))

Reverse(s) == [i \in DOMAIN s |-> s[Len(s) + 1 - i]]

\* The mutant removes the slots in ascending order.
removal_order_mut(slots_to_remove) == Enumerate(Range(slots_to_remove))

\* Lines 89-90: slots_to_remove.sort(), then reversed(slots_to_remove).
removal_order(slots_to_remove) == Reverse(Enumerate(Range(slots_to_remove)))

\* Lines 45-49: the active object, if it is a mesh object.
active_mesh_object == ctx.active # None /\ objs[ctx.active].type = "MESH"

\* Lines 45-93: the whole function.
remove_duplicate_material_slots ==
    /\ pc = "idle"
    /\ runs < MaxPasses
    /\ IF active_mesh_object
       THEN LET m == objs[ctx.active].data
                st0 == [map |-> {}, polys |-> meshes[m].material_index,
                        remove |-> <<>>, moves |-> {}, writes |-> 0]
                st == slot_walk(st0, mats, meshes[m].materials,
                                Len(meshes[m].materials) - 1)
                walked == [meshes[m] EXCEPT !.material_index = st.polys]
            IN /\ meshes' = [meshes EXCEPT
                               ![m] = pop_all(walked, removal_order(st.remove))]
               /\ writes' = st.writes + Len(st.remove)
               /\ redirect' = {<<"slot", e[1], e[2]>> : e \in st.moves}
       ELSE /\ UNCHANGED meshes
            /\ writes' = 0
            /\ redirect' = {}
    /\ queued' = {}
    /\ pre' = scene
    /\ prevPass' = lastPass
    /\ lastPass' = "slots"
    /\ runs' = runs + 1
    /\ UNCHANGED <<ctx, objs, mats, imgs, mapFile, pc, todo, imap, deleted>>

-----------------------------------------------------------------------------
(* The host raises an error from a remove call.  The block stays; what the  *)
(* pass does next depends on the handler around the call.                   *)

\* mesh_utils.py, lines 184-189: the call is in a try with except Exception;
\* the error is printed and the loop goes on with the next name.
remove_duplicate_meshes_delete_raises ==
    /\ pc = "mesh_delete"
    /\ todo # <<>>
    /\ meshes_get(meshes, Head(todo)) # None
    /\ todo' = Tail(todo)
    /\ UNCHANGED <<ctx, objs, meshes, mats, imgs, mapFile, pc, imap, pre, deleted,
                   queued, redirect, writes, lastPass, prevPass, runs>>

\* material_utils.py, lines 155-158: the call is in no try; the error leaves
\* the loop and the function, with the other candidates unvisited and phase 3
\* not run.
remove_duplicate_materials_delete_raises ==
    /\ pc = "mat_delete"
    /\ \E mat \in todo :
          /\ material_delete_guard(meshes, mats, mat)
          /\ todo' = Enumerate(todo \ {mat})
    /\ pc' = "idle"
    /\ imap' = <<>>
    /\ UNCHANGED <<ctx, objs, meshes, mats, imgs, mapFile, pre, deleted, queued,
                   redirect, writes, lastPass, prevPass, runs>>

\* texture_utils.py, lines 198-205: the call is in a try with except
\* RuntimeError, the error the host raises; the loop goes on.
remove_duplicate_images_delete_raises ==
    /\ pc = "img_delete"
    /\ todo # <<>>
    /\ image_delete_guard(mats, imgs, Head(todo))
    /\ todo' = Tail(todo)
    /\ UNCHANGED <<ctx, objs, meshes, mats, imgs, mapFile, pc, imap, pre, deleted,
                   queued, redirect, writes, lastPass, prevPass, runs>>

\* texture_utils.py, lines 78-82: the call is in no try; the error leaves the
\* loop and the function, with the other candidates unvisited and
\* rename_image_paths() not run.
remap_textures_delete_raises ==
    /\ pc = "remap_delete"
    /\ todo # <<>>
    /\ image_delete_guard(mats, imgs, Head(todo))
    /\ todo' = Tail(todo)
    /\ pc' = "idle"
    /\ UNCHANGED <<ctx, objs, meshes, mats, imgs, mapFile, imap, pre, deleted, queued,
                   redirect, writes, lastPass, prevPass, runs>>

-----------------------------------------------------------------------------
(* remove_unused_material_slots (material_utils.py). *)

\* The mutant takes no slot for used.
used_slots_mut(mesh) == {}

\* Lines 17-19: the material indices of the polygons.
used_slots(mesh) == Range(mesh.material_index)

\* Lines 24-25: the slot i is made the active slot and
\* bpy.ops.object.material_slot_remove() removes it; the host renumbers the
\* polygons as it does for materials.pop.
material_slot_remove(mesh, i) == materials_pop(mesh, i)

RECURSIVE unused_walk(_, _, _)
\* Lines 22-25: for i in range(len(obj.material_slots) - 1, -1, -1), with the
\* set of used slots computed before the walk.
unused_walk(mesh, used, i) ==
    IF i < 0 THEN mesh
    ELSE unused_walk(IF i \notin used THEN material_slot_remove(mesh, i) ELSE mesh,
                     used, i - 1)

\* Lines 4-27: the whole function.
remove_unused_material_slots ==
    /\ pc = "idle"
    /\ runs < MaxPasses
    /\ IF active_mesh_object
       THEN LET m == objs[ctx.active].data
                after == unused_walk(meshes[m], used_slots(meshes[m]),
                                     Len(meshes[m].materials) - 1)
            IN /\ meshes' = [meshes EXCEPT ![m] = after]
               /\ writes' = Len(meshes[m].materials) - Len(after.materials)
       ELSE /\ UNCHANGED meshes
            /\ writes' = 0
    /\ redirect' = {}
    /\ queued' = {}
    /\ pre' = scene
    /\ prevPass' = lastPass
    /\ lastPass' = "unused"
    /\ runs' = runs + 1
    /\ UNCHANGED <<ctx, objs, mats, imgs, mapFile, pc, todo, imap, deleted>>

-----------------------------------------------------------------------------
(* reset_object (object_utils.py). *)

\* Line 12: bpy.ops.object.mode_set.poll(), which needs an active object.
mode_set_poll == ctx.active # None

\* Line 38: the suffix of the temporary name.
TEMP_DEL == <<"_", "T", "E", "M", "P", "_", "D", "E", "L">>

\* Line 71: bpy.data.objects.get(name): the object of that name, or None.
objects_get(os, name) ==
    IF \E o \in DOMAIN os : os[o].name = name
    THEN CHOOSE o \in DOMAIN os : os[o].name = name
    ELSE None

\* The identity the host gives a new object: one that no object has had.
new_object_id ==
    1 + Max({0} \cup DOMAIN objs \cup {d[2] : d \in {e \in deleted : e[1] = "obj"}})

\* The collection of the scene itself (line 57).
SceneCollection == 0

\* Lines 50-57: the collections the new object is linked to: those of the
\* original in which no object carries its name, or the scene's collection
\* when that leaves none.
linked_collections(os, new, original_collections) ==
    LET linked == {c \in original_collections :
                     ~\E o \in DOMAIN os \ {new} :
                         c \in os[o].users_collection /\ os[o].name = os[new].name}
    IN IF linked = {} THEN {SceneCollection} ELSE linked

\* Line 68: bpy.ops.object.select_all(action='DESELECT').
deselect_all(os) == [o \in DOMAIN os |-> [os[o] EXCEPT !.select = FALSE]]

\* Line 71: the object to delete is looked up by the temporary name that was
\* asked for.
object_to_delete(os, obj, temp_old_name) == objects_get(os, temp_old_name)

\* Lines 28-81: the reset of the active mesh object obj; the result is the
\* objects, the new object and the object that was removed (or None).
reset_mesh_object(os, obj, new) ==
    LET original_name == os[obj].name
        temp_old_name == original_name \o TEMP_DEL
        renamed == [os EXCEPT ![obj].name = unique_name(temp_old_name, OtherNames(os, obj))]
        new_object == [type |-> "MESH",
                       data |-> os[obj].data,
                       name |-> unique_name(original_name,
                                            {renamed[o].name : o \in DOMAIN renamed}),
                       matrix_world |-> os[obj].matrix_world,
                       rotation_mode |-> os[obj].rotation_mode,
                       users_collection |-> {},
                       select |-> FALSE]
        created == [o \in DOMAIN renamed \cup {new} |->
                       IF o = new THEN new_object ELSE renamed[o]]
        linked == [created EXCEPT ![new].users_collection =
                      linked_collections(created, new, os[obj].users_collection)]
        deselected == deselect_all(linked)
        obj_to_del == object_to_delete(deselected, obj, temp_old_name)
        removed == IF obj_to_del # None THEN Without(deselected, obj_to_del)
                   ELSE deselected
        found == new \in DOMAIN removed
    IN [objs |-> IF found THEN [removed EXCEPT ![new].select = TRUE] ELSE removed,
        active |-> IF found THEN new
                   ELSE IF ctx.active \in DOMAIN removed THEN ctx.active ELSE None,
        gone |-> obj_to_del]

\* Lines 5-85: the whole function.
reset_object ==
    /\ pc = "idle"
    /\ runs < MaxPasses
    /\ IF ~mode_set_poll
       THEN UNCHANGED <<objs, ctx, deleted, redirect>>
       ELSE IF objs[ctx.active].type # "MESH"
       THEN /\ ctx' = [ctx EXCEPT !.mode = "OBJECT"]
            /\ UNCHANGED <<objs, deleted, redirect>>
       ELSE LET r == reset_mesh_object(objs, ctx.active, new_object_id) IN
            /\ objs' = r.objs
            /\ ctx' = [ctx EXCEPT !.mode = "OBJECT", !.active = r.active]
            /\ deleted' = IF r.gone # None THEN deleted \cup {<<"obj", r.gone>>}
                          ELSE deleted
            /\ redirect' = {<<"obj", ctx.active, new_object_id>>}
    /\ writes' = 0
    /\ queued' = {}
    /\ pre' = scene
    /\ prevPass' = lastPass
    /\ lastPass' = "reset"
    /\ runs' = runs + 1
    /\ UNCHANGED <<meshes, mats, imgs, mapFile, pc, todo, imap>>

-----------------------------------------------------------------------------
(* export_selected_objects_to_gltf (object_utils.py). *)

\* Line 131: bpy.path.clean_name: every character that is no letter and no
\* digit becomes an underscore.
clean_name(s) == [i \in DOMAIN s |-> IF s[i] \in AlphaNumeric THEN s[i] ELSE "_"]

\* Lines 131-132: the file an object is exported to.
export_file(name) == clean_name(name) \o <<".", "g", "l", "t", "f">>

\* Line 110: the selected objects.
selected_objects(os) == {o \in DOMAIN os : os[o].select}

\* Lines 87-165: the whole function.  The directory is made (line 107) before
\* the selection is looked at (line 112); select_all (line 117) is an
\* operator of object mode and raises in another mode.
export_selected_objects_to_gltf ==
    /\ pc = "idle"
    /\ runs < MaxPasses
    /\ IF ~ctx.saved
       THEN UNCHANGED ctx
       ELSE IF selected_objects(objs) = {} \/ ctx.mode # "OBJECT"
       THEN ctx' = [ctx EXCEPT !.export_dir = TRUE]
       ELSE LET exported == {o \in selected_objects(objs) : objs[o].type = "MESH"} IN
            ctx' = [ctx EXCEPT
                      !.export_dir = TRUE,
                      !.files = @ \cup {export_file(objs[o].name) : o \in exported},
                      !.active = IF exported = {} THEN @ ELSE Max(exported)]
    /\ writes' = 0
    /\ redirect' = {}
    /\ queued' = {}
    /\ pre' = scene
    /\ prevPass' = lastPass
    /\ lastPass' = "export"
    /\ runs' = runs + 1
    /\ UNCHANGED <<objs, meshes, mats, imgs, mapFile, pc, todo, imap, deleted>>

-----------------------------------------------------------------------------
(* Scenes.  Every specification starts from a family of scenes the host can *)
(* hold: names are unique within a collection, a reference points at a      *)
(* block that exists, a material index at a slot of the list (or is 0).     *)

Tex(i) == [type |-> "TEX_IMAGE", image |-> i]
Bsdf == [type |-> "BSDF", image |-> None]

MeshName(m) == <<"m", ToString(m)>>
MatName(x) == <<"x", ToString(x)>>
ImgName(i) == <<"i", ToString(i), ".", "p", "n", "g">>
ImgPath(i) == <<"/", "/", "t", "e", "x", "/", ToString(i)>>

\* The context of a saved or unsaved document in object mode, before any
\* export.
Context(active) ==
    [active |-> active, mode |-> "OBJECT", saved |-> FALSE, export_dir |-> FALSE,
     files |-> {}]

Mesh(m, g, x, materials, material_index) ==
    [name |-> MeshName(m), vertices |-> g, edges |-> 1, faces |-> 1, extra |-> x,
     materials |-> materials, material_index |-> material_index]

Mat(x, name, use_nodes, nodes, extra) ==
    [name |-> name, use_nodes |-> use_nodes, nodes |-> nodes, extra |-> extra]

\* A packed image, hashed by remove_duplicate_images.
Img(name, pixels, path, extra) ==
    [name |-> name, pixels |-> pixels, packed |-> TRUE, source |-> "FILE",
     filepath |-> path, extra |-> extra]

history0 ==
    /\ pc = "idle"
    /\ todo = <<>>
    /\ imap = <<>>
    /\ pre = scene
    /\ deleted = {}
    /\ queued = {}
    /\ redirect = {}
    /\ writes = 0
    /\ lastPass = "none"
    /\ prevPass = "none"
    /\ runs = 0

NoFile == [exists |-> FALSE, lines |-> <<>>]

UniqueNames(f) == \A a, b \in DOMAIN f : a # b => f[a].name # f[b].name

(* The scenes of the mesh pass: objects over meshes of few geometries, a    *)
(* mesh with or without a user that is no object.                           *)
InitMesh ==
    /\ objs \in [ObjIds -> {[type |-> "MESH", data |-> m] : m \in MeshIds}]
    /\ meshes \in [MeshIds -> UNION {{Mesh(m, g, x, <<>>, <<>>)
                                     : g \in 1 .. NumGeoms, x \in 0 .. 1} : m \in MeshIds}]
    /\ \A m \in MeshIds : meshes[m].name = MeshName(m)
    /\ mats = <<>>
    /\ imgs = <<>>
    /\ ctx = Context(None)
    /\ mapFile = NoFile
    /\ history0

NextMesh ==
    \/ remove_duplicate_meshes
    \/ remove_duplicate_meshes_delete
    \/ remove_duplicate_meshes_end

SpecMesh == InitMesh /\ [][NextMesh]_vars

(* The scenes of the slot pass: one active mesh object whose mesh has up to *)
(* MaxSlots slots, empty or holding one of two materials, and NumPolys      *)
(* polygons.                                                                *)
SlotLists == UNION {[1 .. n -> {None, 1, 2}] : n \in 0 .. MaxSlots}

IndexLists(n) == [1 .. NumPolys -> 0 .. (IF n = 0 THEN 0 ELSE n - 1)]

InitSlots ==
    /\ objs = <<[type |-> "MESH", data |-> 1]>>
    /\ \E sl \in SlotLists : \E il \in IndexLists(Len(sl)) :
          meshes = <<Mesh(1, 1, 0, sl, il)>>
    /\ mats = <<Mat(1, MatName(1), TRUE, <<Tex(1)>>, 0),
                Mat(2, MatName(2), TRUE, <<Bsdf>>, 0)>>
    /\ imgs = <<Img(ImgName(1), 1, ImgName(1), 0)>>
    /\ ctx = Context(1)
    /\ mapFile = NoFile
    /\ history0

NextSlots == remove_duplicate_material_slots

SpecSlots == InitSlots /\ [][NextSlots]_vars

(* The scenes of the material pass: NumMats materials, each with one or   *)
(* two image texture nodes on two images, using nodes or not, with or       *)
(* without a user outside the slots; a two-slot mesh of the first object    *)
(* and a one-slot mesh that the second object uses or nobody does.          *)
MatIds == 1 .. NumMats

TextureNames ==
    {<<"T", "_", "1">>, <<"T", "_", "2", ".", "p", "n", "g">>, <<"t", "e", "x">>}

MatShapes(x) ==
    {Mat(x, MatName(x), f[1], nodes, f[2]) :
        f \in {<<TRUE, 0>>, <<TRUE, 1>>, <<FALSE, 0>>},
        nodes \in {<<Tex(1)>>, <<Tex(2)>>, <<Tex(1), Tex(2)>>}}

InitMat ==
    /\ \E d \in 1 .. 2 :
          objs = <<[type |-> "MESH", data |-> 1], [type |-> "MESH", data |-> d]>>
    /\ \E sl \in [1 .. 2 -> MatIds] : \E x \in MatIds :
          meshes = <<Mesh(1, 1, 0, sl, <<0, 1>>), Mesh(2, 2, 0, <<x>>, <<0>>)>>
    /\ mats \in [MatIds -> UNION {MatShapes(x) : x \in MatIds}]
    /\ \A x \in MatIds : mats[x].name = MatName(x)
    /\ \E n \in TextureNames :
          imgs = <<Img(<<"T", "_", "1", ".", "p", "n", "g">>, 1, ImgPath(1), 0),
                   Img(n, 2, ImgPath(2), 0)>>
    /\ ctx = Context(1)
    /\ mapFile = NoFile
    /\ history0

NextMat ==
    \/ remove_duplicate_materials
    \/ remove_duplicate_materials_delete
    \/ remove_duplicate_materials_rename

SpecMat == InitMat /\ [][NextMat]_vars

(* The scenes of the image pass: NumImgs images, each packed with one of   *)
(* two pixel buffers (with or without a user that is no node), packed       *)
(* without pixels, an external unpacked file, or generated; the second      *)
(* carries a collision suffix.  Two materials with one image texture node   *)
(* each, using nodes or not.                                                *)
ImgIds == 1 .. NumImgs

ImgNameOf(i) == IF i = 2 THEN ImgName(1) \o Suffix(1) ELSE ImgName(i)

ImgShapes(i) ==
    {[name |-> ImgNameOf(i), pixels |-> k[1], packed |-> k[2], source |-> k[3],
      filepath |-> ImgPath(i), extra |-> k[4]] :
        k \in {<<1, TRUE, "FILE", 0>>, <<1, TRUE, "FILE", 1>>, <<2, TRUE, "FILE", 0>>,
               <<0, TRUE, "FILE", 0>>, <<1, FALSE, "FILE", 0>>,
               <<1, FALSE, "GENERATED", 0>>}}

InitImg ==
    /\ objs = <<>>
    /\ meshes = <<>>
    /\ mats \in [1 .. 2 -> UNION {{Mat(x, MatName(x), u, <<Bsdf, Tex(i)>>, 0) :
                                      u \in BOOLEAN, i \in ImgIds} : x \in 1 .. 2}]
    /\ \A x \in 1 .. 2 : mats[x].name = MatName(x)
    /\ imgs \in [ImgIds -> UNION {ImgShapes(i) : i \in ImgIds}]
    /\ \A i \in ImgIds : imgs[i].name = ImgNameOf(i)
    /\ ctx = Context(None)
    /\ mapFile = NoFile
    /\ history0

NextImg ==
    \/ remove_duplicate_images
    \/ remove_duplicate_images_delete
    \/ remove_duplicate_images_end

SpecImg == InitImg /\ [][NextImg]_vars

(* The scenes of the remap pass: NumImgs images whose names differ in case *)
(* and spacing, all with or all without a user that is no node; a mapping   *)
(* file of up to two records (or none); two materials with one image        *)
(* texture node each.                                                       *)
RemapNames ==
    {<<"t", "1">>, <<"T", " ", "1">>, <<"t", "2">>, <<"M", "1">>, <<"M", "2">>}

MapLines ==
    {<<<<"M", "1">>, <<"T", "1">>>>,         \* M1,T1
     <<<<"M", "1">>, <<" ", "t", "2">>>>,    \* M1, t2
     <<<<"M", "2", " ">>, <<"m", "1">>>>,    \* M2 ,m1
     <<<<"t", "1">>, <<"M", "2">>>>}         \* t1,M2

\* A file whose third record names, as its new name, an image that the
\* second record maps elsewhere.
ChainedMap ==
    <<<<<<"M", "1">>, <<"T", "1">>>>,        \* M1,T1
      <<<<"M", "1">>, <<" ", "t", "2">>>>,   \* M1, t2
      <<<<"t", "2">>, <<"M", "2">>>>>>       \* t2,M2

MapFiles ==
    {NoFile, [exists |-> TRUE, lines |-> ChainedMap]}
    \cup {[exists |-> TRUE, lines |-> l] :
              l \in UNION {[1 .. n -> MapLines] : n \in 1 .. 2}}

InitRemap ==
    /\ objs = <<>>
    /\ meshes = <<>>
    /\ \E i1, i2 \in ImgIds :
          mats = <<Mat(1, MatName(1), TRUE, <<Tex(i1)>>, 0),
                   Mat(2, MatName(2), TRUE, <<Tex(i2)>>, 0)>>
    /\ \E x \in 0 .. 1 : imgs \in [ImgIds -> {Img(n, 1, ImgPath(1), x) : n \in RemapNames}]
    /\ UniqueNames(imgs)
    /\ ctx = Context(None)
    /\ mapFile \in MapFiles
    /\ history0

NextRemap ==
    \/ remap_textures_no_file
    \/ remap_textures
    \/ remap_textures_delete
    \/ remap_textures_end

SpecRemap == InitRemap /\ [][NextRemap]_vars

(* The scenes of the whole add-on: two mesh objects, two meshes of one slot *)
(* each, three materials and three images, so that every pass finds work    *)
(* and the blocks of one category hold references to those of the next.     *)
Init ==
    /\ \E d \in 1 .. 2 :
          objs = <<[type |-> "MESH", data |-> 1], [type |-> "MESH", data |-> d]>>
    /\ \E g \in 1 .. 2 : \E x \in 0 .. 1 : \E b \in 2 .. 3 :
          meshes = <<Mesh(1, 1, 0, <<1>>, <<0>>), Mesh(2, g, x, <<b>>, <<0>>)>>
    /\ \E n2 \in {<<Tex(1)>>, <<Tex(2)>>, <<Tex(1), Tex(2)>>} : \E x2 \in 0 .. 1 :
       \E u3 \in BOOLEAN : \E i3 \in 2 .. 3 :
          mats = <<Mat(1, MatName(1), TRUE, <<Tex(1)>>, 0),
                   Mat(2, MatName(2), TRUE, n2, x2),
                   Mat(3, MatName(3), u3, <<Tex(i3)>>, 0)>>
    /\ \E p2 \in 1 .. 2 : \E p3 \in 1 .. 2 : \E x3 \in 0 .. 1 :
          imgs = <<Img(<<"T", "_", "1">>, 1, ImgPath(1), 0),
                   Img(<<"t", "1">>, p2, ImgPath(2), 0),
                   Img(<<"T", " ", "1">>, p3, ImgPath(3), x3)>>
    /\ ctx = Context(1)
    /\ mapFile \in {NoFile,
                    [exists |-> TRUE, lines |-> <<<<<<"M", "1">>, <<"T", "1">>>>>>],
                    [exists |-> TRUE, lines |-> <<<<<<"T", "_", "2">>, <<"T", "1">>>>,
                                                  <<<<"T", "_", "1">>, <<"t", "_", "2">>>>>>]}
    /\ history0

Next ==
    \/ remove_duplicate_meshes
    \/ remove_duplicate_meshes_delete
    \/ remove_duplicate_meshes_end
    \/ remove_duplicate_material_slots
    \/ remove_duplicate_materials
    \/ remove_duplicate_materials_delete
    \/ remove_duplicate_materials_rename
    \/ remove_duplicate_images
    \/ remove_duplicate_images_delete
    \/ remove_duplicate_images_end
    \/ remap_textures_no_file
    \/ remap_textures
    \/ remap_textures_delete
    \/ remap_textures_end

Spec == Init /\ [][Next]_vars

(* The scenes of remove_unused_material_slots: those of the slot pass. *)
NextUnused == remove_unused_material_slots

SpecUnused == InitSlots /\ [][NextUnused]_vars

(* The scenes of the object commands: three objects, the first two mesh     *)
(* objects or curves, selected or not; the second and third may carry the   *)
(* temporary name reset_object gives the first; an active object or none,   *)
(* in object mode or in edit mode; a saved or an unsaved document.          *)
ObjName(o) == <<"o", ToString(o)>>

Obj(type, data, name, matrix_world, rotation_mode, users_collection, select) ==
    [type |-> type, data |-> data, name |-> name, matrix_world |-> matrix_world,
     rotation_mode |-> rotation_mode, users_collection |-> users_collection,
     select |-> select]

ObjTypes == {"MESH", "CURVE"}

\* An object of the type ty: a mesh object uses the mesh 1, a curve no mesh.
ObjOfType(ty, name, matrix_world, rotation_mode, users_collection, select) ==
    Obj(ty, IF ty = "MESH" THEN 1 ELSE None, name, matrix_world, rotation_mode,
        users_collection, select)

InitObj ==
    /\ \E t1, t2 \in ObjTypes : \E s1, s2 \in BOOLEAN : \E c1 \in {{1}, {1, 2}} :
       \E n2 \in {ObjName(2), ObjName(1) \o TEMP_DEL} :
       \E n3 \in {ObjName(3), ObjName(1) \o TEMP_DEL \o Suffix(1)} :
          objs = <<ObjOfType(t1, ObjName(1), 1, "QUATERNION", c1, s1),
                   ObjOfType(t2, n2, 2, "XYZ", {1}, s2),
                   ObjOfType("MESH", n3, 3, "XYZ", {2}, FALSE)>>
    /\ meshes = <<Mesh(1, 1, 0, <<1, 2, 1>>, <<0, 0>>)>>
    /\ mats = <<Mat(1, MatName(1), TRUE, <<Tex(1)>>, 0),
                Mat(2, MatName(2), TRUE, <<Bsdf>>, 0)>>
    /\ imgs = <<Img(ImgName(1), 1, ImgName(1), 0)>>
    /\ \E a \in {None} \cup (1 .. 3) : \E md \in {"OBJECT", "EDIT"} : \E sv \in BOOLEAN :
          /\ md = "EDIT" => a # None
          /\ ctx = [Context(a) EXCEPT !.mode = md, !.saved = sv]
    /\ mapFile = NoFile
    /\ history0

NextObj ==
    \/ reset_object
    \/ export_selected_objects_to_gltf
    \/ remove_unused_material_slots
    \/ remove_duplicate_material_slots

SpecObj == InitObj /\ [][NextObj]_vars

(* The scenes in which the host may refuse a removal: three objects on     *)
(* three meshes of one geometry, three materials on one image or each on its *)
(* own, three images of the same pixels or not, and a mapping that sends the *)
(* second and the third image to the name of the first; every pass finds     *)
(* two candidates for deletion.                                              *)
InitFail ==
    /\ objs = <<[type |-> "MESH", data |-> 1], [type |-> "MESH", data |-> 2],
                [type |-> "MESH", data |-> 3]>>
    /\ meshes = <<Mesh(1, 1, 0, <<1>>, <<0>>), Mesh(2, 1, 0, <<2>>, <<0>>),
                  Mesh(3, 1, 0, <<3>>, <<0>>)>>
    /\ \E own \in BOOLEAN : \E x3 \in 0 .. 1 :
          mats = <<Mat(1, MatName(1), TRUE, <<Tex(1)>>, 0),
                   Mat(2, MatName(2), TRUE, <<Tex(IF own THEN 2 ELSE 1)>>, 0),
                   Mat(3, MatName(3), TRUE, <<Tex(IF own THEN 3 ELSE 1)>>, x3)>>
    /\ \E p3 \in 1 .. 2 :
          imgs = <<Img(<<"M", "1">>, 1, ImgPath(1), 0),
                   Img(<<"t", "1">>, 1, ImgPath(2), 0),
                   Img(<<"T", " ", "1">>, p3, ImgPath(3), 0)>>
    /\ ctx = Context(1)
    /\ mapFile = [exists |-> TRUE, lines |-> <<<<<<"M", "1">>, <<"T", "1">>>>>>]
    /\ history0

NextFail ==
    \/ remove_duplicate_meshes
    \/ remove_duplicate_meshes_delete
    \/ remove_duplicate_meshes_delete_raises
    \/ remove_duplicate_meshes_end
    \/ remove_duplicate_materials
    \/ remove_duplicate_materials_delete
    \/ remove_duplicate_materials_delete_raises
    \/ remove_duplicate_materials_rename
    \/ remove_duplicate_images
    \/ remove_duplicate_images_delete
    \/ remove_duplicate_images_delete_raises
    \/ remove_duplicate_images_end
    \/ remap_textures
    \/ remap_textures_delete
    \/ remap_textures_delete_raises
    \/ remap_textures_end

SpecFail == InitFail /\ [][NextFail]_vars

(* The scenes of the two passes that group by content. *)
InitSurvivor == InitMesh \/ InitImg

NextSurvivor == NextMesh \/ NextImg

SpecSurvivor == InitSurvivor /\ [][NextSurvivor]_vars

-----------------------------------------------------------------------------
(* What the claims speak of. *)

\* A pass has run to its end and nothing has begun since.
After(pass) == pc = "idle" /\ lastPass = pass

DeletingPasses == {"meshes", "materials", "images", "remap"}

\* Every reference the scene holds, as <<category, block>>: the mesh of an
\* object, the material of a slot, the image of a texture node.
References ==
    {<<"mesh", objs[o].data>> : o \in {p \in DOMAIN objs : objs[p].data # None}}
    \cup UNION {{<<"mat", meshes[m].materials[k]>> :
                    k \in {j \in DOMAIN meshes[m].materials : meshes[m].materials[j] # None}}
                : m \in DOMAIN meshes}
    \cup UNION {{<<"img", mats[x].nodes[k].image>> :
                    k \in {j \in DOMAIN mats[x].nodes : mats[x].nodes[j].image # None}}
                : x \in DOMAIN mats}

\* C1: after any sequence of the passes, in any order, no mesh reference of
\* an object, no material reference of a slot and no image reference of a
\* texture node points at a block that one of the passes deleted.
C1_NoReferenceToDeleted == pc = "idle" => References \cap deleted = {}

\* Two passes have run, blocks of two categories were deleted, and references
\* of each of these categories remain in the scene.
C1_Witness ==
    /\ pc = "idle"
    /\ \E d1, d2 \in deleted : d1[1] # d2[1]
    /\ \A d \in deleted : \E r \in References : r[1] = d[1]

\* C2: in every pass that deletes blocks, a block has a user count of exactly
\* zero at the moment it is deleted.
C2_DeletedWithoutUsers ==
    [][/\ \A m \in DOMAIN meshes \ DOMAIN meshes' : MeshUsers(objs, meshes, m) = 0
       /\ \A x \in DOMAIN mats \ DOMAIN mats' : MatUsers(meshes, mats, x) = 0
       /\ \A i \in DOMAIN imgs \ DOMAIN imgs' : ImgUsers(mats, imgs, i) = 0]_vars

\* A mesh and a block of another category have been deleted, and the last pass
\* queued a block that it then kept because of its users.
C2_Witness ==
    /\ pc = "idle"
    /\ \E d1, d2 \in deleted : d1[1] = "mesh" /\ d2[1] # "mesh"
    /\ queued \ deleted # {}

\* C3, as stated: a second run of remove_duplicate_materials right after a
\* first leaves the scene as it found it: no slot repointed, no material
\* deleted, no material under another name.
C3_SecondRunChangesNothing ==
    (After("materials") /\ prevPass = "materials") => scene = pre

\* C4, as stated: a second run of remap_textures right after a first, with
\* the same mapping file, leaves the scene as it found it: no image under
\* another name, no texture node repointed, no image deleted.
C4_SecondRunChangesNothing ==
    (After("remap") /\ prevPass = "remap") => scene = pre

\* C5: a second run of remove_duplicate_meshes right after a first changes
\* nothing: no object's mesh reference and no mesh, also when the first run
\* left a duplicate mesh undeleted because it still had users.
C5_SecondRunChangesNothing ==
    (After("meshes") /\ prevPass = "meshes") => (writes = 0 /\ scene = pre)

\* The second run has ended in a scene where the first deleted a duplicate
\* and left another, which still has users, beside its source.
C5_Witness ==
    /\ After("meshes") /\ prevPass = "meshes"
    /\ \E d \in deleted : d[1] = "mesh"
    /\ \E a, b \in DOMAIN meshes :
          /\ a < b
          /\ geom_hash(meshes[a]) = geom_hash(meshes[b])
          /\ MeshUsers(objs, meshes, a) > 0
          /\ MeshUsers(objs, meshes, b) > 0

\* The material references held by the slots of the meshes that objects use.
ObjectSlotReferences ==
    UNION {{<<"mat", meshes[objs[o].data].materials[k]>> :
               k \in {j \in DOMAIN meshes[objs[o].data].materials :
                          meshes[objs[o].data].materials[j] # None}}
           : o \in {p \in DOMAIN objs : objs[p].data # None}}

\* C7, as stated, for the material slots of objects: after a consolidation
\* pass no material slot of an object points at a material that the pass
\* queued for deletion.
C7_NoReferenceToQueued ==
    (pc = "idle" /\ lastPass \in DeletingPasses) => ObjectSlotReferences \cap queued = {}

\* The meshes that remove_duplicate_meshes groups with the mesh m: those of
\* its geometry that had a user when the pass began.
SameGeometry(a, b) ==
    /\ a.vertices = b.vertices
    /\ a.edges = b.edges
    /\ a.faces = b.faces

MeshGroup(m) ==
    {k \in DOMAIN pre.meshes :
        /\ MeshUsers(pre.objs, pre.meshes, k) > 0
        /\ SameGeometry(pre.meshes[k], pre.meshes[m])}

GroupedMeshes == {m \in DOMAIN pre.meshes : MeshUsers(pre.objs, pre.meshes, m) > 0}

\* The objects that referenced a member of the group reference its first
\* member.
MeshGroupRepointed(m) ==
    \A o \in DOMAIN pre.objs :
        pre.objs[o].data \in MeshGroup(m) => objs[o].data = Min(MeshGroup(m))

\* C8, as stated: after remove_duplicate_meshes, for every group of meshes of
\* equal geometry that each had a user, every object that referenced a member
\* references the survivor and every other member is deleted: exactly one
\* member remains.
C8_AsStated ==
    After("meshes") =>
        \A m \in GroupedMeshes :
            /\ MeshGroupRepointed(m)
            /\ MeshGroup(m) \cap DOMAIN meshes = {Min(MeshGroup(m))}

\* C8, amended: every object that referenced a member references the
\* survivor; every other member whose users were all objects is deleted, and
\* one that has another user remains, referenced by no object.
C8_GroupConsolidated ==
    After("meshes") =>
        \A m \in GroupedMeshes :
            /\ MeshGroupRepointed(m)
            /\ Min(MeshGroup(m)) \in DOMAIN meshes
            /\ \A d \in MeshGroup(m) \ {Min(MeshGroup(m))} :
                  /\ d \in DOMAIN meshes <=> pre.meshes[d].extra > 0
                  /\ \A o \in DOMAIN objs : objs[o].data # d

\* A group of three: objects on two duplicates, one of which is deleted while
\* the other, which has another user, remains.
C8_Witness ==
    /\ After("meshes")
    /\ \E m \in GroupedMeshes :
          /\ Cardinality(MeshGroup(m)) >= 3
          /\ \E d1, d2 \in MeshGroup(m) \ {Min(MeshGroup(m))} :
                /\ d1 \notin DOMAIN meshes
                /\ d2 \in DOMAIN meshes
                /\ \E o \in DOMAIN pre.objs : pre.objs[o].data = d1
                /\ \E o \in DOMAIN pre.objs : pre.objs[o].data = d2

\* The images that remove_duplicate_images groups with the image i: those
\* that have pixels, are neither external unpacked files nor generated, and
\* have its pixels.
Eligible(img) ==
    /\ img.pixels # 0
    /\ img.source # "GENERATED"
    /\ (img.packed \/ img.source # "FILE")

GroupedImages == {i \in DOMAIN pre.imgs : Eligible(pre.imgs[i])}

ImgGroup(i) ==
    {k \in GroupedImages : pre.imgs[k].pixels = pre.imgs[i].pixels}

\* C9, as stated, for the texture nodes: after remove_duplicate_images, for
\* every group of eligible images of equal pixel hashes, every texture node
\* of every material that referenced a member references the survivor.
C9_EveryNodeRepointed ==
    After("images") =>
        \A i \in GroupedImages :
            \A x \in DOMAIN pre.mats : \A k \in DOMAIN pre.mats[x].nodes :
                (pre.mats[x].nodes[k].type = "TEX_IMAGE"
                 /\ pre.mats[x].nodes[k].image \in ImgGroup(i))
                => mats[x].nodes[k].image = Min(ImgGroup(i))

\* C10: in remove_duplicate_meshes and remove_duplicate_images the survivor
\* of a group is its member that the host enumerates first: every other
\* member is rewritten to that one, whatever else the scene holds.
C10_SurvivorIsFirst ==
    /\ lastPass = "meshes" =>
          /\ \A e \in redirect : e[3] = Min(MeshGroup(e[2]))
          /\ \A m \in GroupedMeshes :
                m # Min(MeshGroup(m)) => <<"mesh", m, Min(MeshGroup(m))>> \in redirect
    /\ lastPass = "images" =>
          /\ \A e \in redirect : e[3] = Min(ImgGroup(e[2]))
          /\ \A i \in GroupedImages :
                i # Min(ImgGroup(i)) => <<"img", i, Min(ImgGroup(i))>> \in redirect

\* A pass has ended that rewrote a duplicate to the first member of its
\* group, where a block of other content precedes that member in the
\* collection.
C10_Witness ==
    /\ pc = "idle"
    /\ \E e \in redirect : 1 < e[3] /\ e[3] < e[2]


\* The material a polygon with material index ix resolves to on the mesh
\* record mesh, or None when the slot is empty or does not exist.
Resolves(mesh, ix) ==
    IF ix + 1 \in DOMAIN mesh.materials THEN mesh.materials[ix + 1] ELSE None

\* The mesh of the active object before and after the slot pass.
SlotMeshBefore == pre.meshes[pre.objs[ctx.active].data]
SlotMeshAfter == meshes[objs[ctx.active].data]

SlotIndexInBounds ==
    \A p \in DOMAIN SlotMeshAfter.material_index :
        SlotMeshAfter.material_index[p] \in 0 .. Len(SlotMeshAfter.materials) - 1

SlotIndexInBoundsOrZero ==
    \A p \in DOMAIN SlotMeshAfter.material_index :
        IF SlotMeshAfter.materials = <<>>
        THEN SlotMeshAfter.material_index[p] = 0
        ELSE SlotMeshAfter.material_index[p] \in 0 .. Len(SlotMeshAfter.materials) - 1

SlotMaterialKept ==
    \A p \in DOMAIN SlotMeshBefore.material_index :
        Resolves(SlotMeshBefore, SlotMeshBefore.material_index[p]) # None
        => Resolves(SlotMeshAfter, SlotMeshAfter.material_index[p])
           = Resolves(SlotMeshBefore, SlotMeshBefore.material_index[p])

\* C6, as stated: after remove_duplicate_material_slots on an object every
\* polygon has a material index within 0..n-1 of the shortened slot list, and
\* every polygon that referenced a non-null slot resolves to the material it
\* resolved to before.
C6_AsStated ==
    (After("slots") /\ active_mesh_object) => (SlotIndexInBounds /\ SlotMaterialKept)

\* C6, amended: the index is within 0..n-1 when slots remain and is 0 when the
\* pass has removed every slot; a polygon of a non-null slot keeps its material.
C6_SlotIndexValid ==
    (After("slots") /\ active_mesh_object) => (SlotIndexInBoundsOrZero /\ SlotMaterialKept)

\* A duplicate slot with a polygon on it was merged and slots were removed in
\* front of a polygon of a kept slot.
C6_Witness ==
    /\ After("slots") /\ active_mesh_object
    /\ Len(SlotMeshAfter.materials) >= 2
    /\ Len(SlotMeshAfter.materials) + 2 <= Len(SlotMeshBefore.materials)
    /\ \E e \in redirect : e[1] = "slot" /\ Count(SlotMeshBefore.material_index, e[2]) > 0
    /\ \E p \in DOMAIN SlotMeshAfter.material_index :
          /\ Resolves(SlotMeshBefore, SlotMeshBefore.material_index[p]) # None
          /\ SlotMeshAfter.material_index[p] < SlotMeshBefore.material_index[p]

\* The mapping the last run of remap_textures read.
LastMap == read_map(mapFile.lines, {})

\* The images that the mapping sends to the name t, as the pass found them.
MappedTo(t) ==
    {i \in DOMAIN pre.imgs :
        /\ map_has(LastMap, normalize(pre.imgs[i].name))
        /\ map_get(LastMap, normalize(pre.imgs[i].name)) = t}

\* The target names that two or more images are sent to and that no image
\* carried when the pass began.
SharedTargets ==
    {e[2] : e \in {f \in LastMap :
        /\ Cardinality(MappedTo(f[2])) >= 2
        /\ \A i \in DOMAIN pre.imgs : pre.imgs[i].name # f[2]}}

\* The first image of the group carries the target name, and every texture
\* node that referenced another image of the group references the first.
RenamedAndRepointed(t) ==
    LET first == Min(MappedTo(t)) IN
    /\ first \in DOMAIN imgs
    /\ imgs[first].name = t
    /\ \A d \in MappedTo(t) \ {first} :
          \A x \in DOMAIN pre.mats : \A k \in DOMAIN pre.mats[x].nodes :
              (pre.mats[x].nodes[k].type = "TEX_IMAGE" /\ pre.mats[x].nodes[k].image = d)
              => mats[x].nodes[k].image = first

\* Whether a texture node of the scene references the image d.
NodeReferences(d) ==
    \E x \in DOMAIN mats : \E k \in DOMAIN mats[x].nodes : mats[x].nodes[k].image = d

\* C11, as stated: when the mapping sends two differently named images to one
\* target name that no image carries, remap_textures renames the first
\* processed to the target, repoints every texture node of the second to the
\* first and deletes the second.
C11_AsStated ==
    After("remap") =>
        \A t \in SharedTargets :
            /\ RenamedAndRepointed(t)
            /\ \A d \in MappedTo(t) \ {Min(MappedTo(t))} : d \notin DOMAIN imgs

\* C11, amended: the first processed is renamed to the target and every
\* texture node of the second is repointed to the first; the second is deleted
\* exactly when no user of it is left: no user that is no texture node, and
\* no texture node that a later consolidation of the same pass repointed to it.
C11_ConsolidatedIntoFirst ==
    After("remap") =>
        \A t \in SharedTargets :
            /\ RenamedAndRepointed(t)
            /\ \A d \in MappedTo(t) \ {Min(MappedTo(t))} :
                  d \notin DOMAIN imgs <=> (pre.imgs[d].extra = 0 /\ ~NodeReferences(d))

\* remap_textures has ended on a group of two whose second image, referenced
\* by a texture node, was repointed and deleted.
C11_Witness ==
    /\ After("remap")
    /\ \E t \in SharedTargets : \E d \in MappedTo(t) \ {Min(MappedTo(t))} :
          /\ d \notin DOMAIN imgs
          /\ \E x \in DOMAIN pre.mats : \E k \in DOMAIN pre.mats[x].nodes :
                pre.mats[x].nodes[k].image = d

\* The materials that occupy a slot of the mesh record mesh.
SlotMaterials(mesh) == Range(mesh.materials) \ {None}

\* C12: after remove_duplicate_material_slots the slot list of the object
\* holds no null slot and no material twice, and every material that occupied
\* a slot before the pass occupies exactly one slot after it.
C12_SlotsCompacted ==
    (After("slots") /\ active_mesh_object) =>
        /\ \A k \in DOMAIN SlotMeshAfter.materials : SlotMeshAfter.materials[k] # None
        /\ \A j, k \in DOMAIN SlotMeshAfter.materials :
              SlotMeshAfter.materials[j] = SlotMeshAfter.materials[k] => j = k
        /\ \A x \in SlotMaterials(SlotMeshBefore) : Count(SlotMeshAfter.materials, x) = 1

\* The pass has run on a list of a null slot, a material in two slots and
\* another material.
C12_Witness ==
    /\ After("slots") /\ active_mesh_object
    /\ None \in Range(SlotMeshBefore.materials)
    /\ Cardinality(SlotMaterials(SlotMeshBefore)) = 2
    /\ \E x \in SlotMaterials(SlotMeshBefore) : Count(SlotMeshBefore.materials, x) = 2
    /\ Len(SlotMeshAfter.materials) = 2

\* Whether the active object was a mesh object when the last command began.
PreActiveMesh == pre.ctx.active # None /\ pre.objs[pre.ctx.active].type = "MESH"

\* Whether the precondition of the last command failed: no active mesh object
\* for reset_object and the slot commands, an unsaved document or an empty
\* selection for the export.
PreconditionFailed ==
    \/ lastPass \in {"reset", "slots", "unused"} /\ ~PreActiveMesh
    \/ lastPass = "export" /\ (~pre.ctx.saved \/ selected_objects(pre.objs) = {})

\* C13, as stated: a command whose precondition fails returns without having
\* changed any state: no block of the scene, not the interaction mode, not the
\* selection, not the active object, and no export directory is made.
C13_AsStated == (pc = "idle" /\ PreconditionFailed) => scene = pre

\* The objects reset_object made: those that were not there when it began.
NewObjects == DOMAIN objs \ DOMAIN pre.objs

\* C16, as stated: after reset_object on an active mesh object the old object
\* no longer exists, and a new object exists that has its name, its mesh, its
\* world transform, its rotation mode and its collection memberships and is
\* the active object.
C16_AsStated ==
    (After("reset") /\ PreActiveMesh) =>
        LET old == pre.objs[pre.ctx.active] IN
        /\ pre.ctx.active \notin DOMAIN objs
        /\ \E new \in NewObjects :
              /\ objs[new].name = old.name
              /\ objs[new].data = old.data
              /\ objs[new].matrix_world = old.matrix_world
              /\ objs[new].rotation_mode = old.rotation_mode
              /\ objs[new].users_collection = old.users_collection
              /\ ctx.active = new

\* The slots of the mesh record mesh that a polygon references, in order.
UsedSlotList(mesh) ==
    LET used == Enumerate(used_slots(mesh) \cap (0 .. Len(mesh.materials) - 1))
    IN [k \in DOMAIN used |-> mesh.materials[used[k] + 1]]

\* C17: remove_unused_material_slots removes exactly the slots of the active
\* mesh object that no polygon references, and every polygon resolves through
\* its material index to the material it resolved to before.
C17_UnusedSlotsRemoved ==
    (After("unused") /\ active_mesh_object) =>
        /\ SlotMeshAfter.materials = UsedSlotList(SlotMeshBefore)
        /\ \A p \in DOMAIN SlotMeshBefore.material_index :
              Resolves(SlotMeshAfter, SlotMeshAfter.material_index[p])
              = Resolves(SlotMeshBefore, SlotMeshBefore.material_index[p])

\* The pass has removed an unused slot in front of a used one and kept two.
C17_Witness ==
    /\ After("unused") /\ active_mesh_object
    /\ Len(SlotMeshAfter.materials) = 2
    /\ Len(SlotMeshBefore.materials) = 4
    /\ 0 \notin used_slots(SlotMeshBefore)
    /\ \E p \in DOMAIN SlotMeshAfter.material_index :
          SlotMeshAfter.material_index[p] < SlotMeshBefore.material_index[p]

\* C18, as stated: when the walk of remove_duplicate_material_slots finds at
\* the slot i a fingerprint it has seen, the index k it reassigns the
\* polygons to is smaller than i.
C18_AsStated ==
    After("slots") => \A e \in redirect : e[3] < e[2]

\* C18, amended: the walk goes from the last slot to the first, so the index
\* k recorded for a fingerprint is that of a later slot: k > i.
C18_RecordedIndexIsLater ==
    After("slots") => \A e \in redirect : e[3] > e[2]

\* The walk has found a duplicate of a slot that is not its neighbour.
C18_Witness ==
    /\ After("slots")
    /\ \E e \in redirect : e[1] = "slot" /\ e[3] > e[2] + 1

\* C20, as stated: reset_object removes no object other than the one that was
\* active when it was invoked, and renames no other object.
C20_AsStated ==
    (After("reset") /\ PreActiveMesh) =>
        \A o \in DOMAIN pre.objs \ {pre.ctx.active} :
            /\ o \in DOMAIN objs
            /\ objs[o].name = pre.objs[o].name

\* C14, as stated: when the host raises an error while a deleting pass removes
\* a block, the pass still visits its other candidates: it does not end with
\* candidates left unvisited.
C14_AsStated ==
    (pc = "idle" /\ lastPass \in DeletingPasses) => todo = <<>>

\* The images dedupe-images does not group: without pixel data, external
\* unpacked files, generated images.
Ineligible == DOMAIN pre.imgs \ GroupedImages

\* No ineligible image is deleted, and no texture node on one is repointed.
IneligibleKept ==
    \A i \in Ineligible :
        /\ i \in DOMAIN imgs
        /\ \A x \in DOMAIN pre.mats : \A k \in DOMAIN pre.mats[x].nodes :
              pre.mats[x].nodes[k].image = i => mats[x].nodes[k].image = i

\* C15, as stated: dedupe-images leaves every image that has no pixel data,
\* is an external unpacked file or is generated untouched: not deleted, not
\* renamed, its file path unchanged, no texture node on it repointed.
C15_AsStated ==
    After("images") =>
        /\ IneligibleKept
        /\ \A i \in Ineligible :
              /\ imgs[i].name = pre.imgs[i].name
              /\ imgs[i].filepath = pre.imgs[i].filepath

\* C19: within a pass every reference rewrite comes before the first
\* deletion.  The step that rewrites deletes no block; a step of the deletion
\* loop, or after it, changes no mesh reference of an object, no slot and no
\* texture node; and the block a step deletes is referenced by nothing.
C19_RewriteBeforeDelete ==
    [][/\ pc = "idle" =>
             /\ DOMAIN meshes' = DOMAIN meshes
             /\ DOMAIN mats' = DOMAIN mats
             /\ DOMAIN imgs' = DOMAIN imgs
       /\ pc # "idle" =>
             /\ objs' = objs
             /\ \A m \in DOMAIN meshes' : meshes'[m].materials = meshes[m].materials
             /\ \A x \in DOMAIN mats' : mats'[x].nodes = mats[x].nodes
       /\ \A d \in deleted' \ deleted : d \notin References]_vars

\* A pass has rewritten references of two blocks and then deleted both.
C19_Witness ==
    /\ pc = "idle"
    /\ lastPass \in DeletingPasses
    /\ \E e1, e2 \in redirect :
          /\ e1[2] # e2[2]
          /\ <<e1[1], e1[2]>> \in deleted
          /\ <<e2[1], e2[2]>> \in deleted
    /\ scene.objs # pre.objs \/ scene.meshes # pre.meshes \/ scene.mats # pre.mats

\* The materials whose name the rename phase reads: those recorded for an
\* image whose name asks for a material name (material_utils.py, lines
\* 171-174).
RenamePhaseReads ==
    {imap[k][2] : k \in {j \in DOMAIN imap : new_material_name(imap[j][1]) # NoName}}

\* C21, as stated: in dedupe-materials every material the rename phase reads
\* or renames still exists when the phase runs: none of them was deleted in
\* the deletion phase.
C21_AsStated ==
    [][(pc = "mat_delete" /\ pc' = "idle") => RenamePhaseReads \subseteq DOMAIN mats]_vars

=============================================================================
